---- MODULE Spec2Model ----
(***************************************************************************)
(* dumpsock: listens on port 9999, accepts one connection, reads it until  *)
(* the peer closes, and dumps what it read.  The program is the linear     *)
(* pipeline of main(); its state is the Context (Env | Error) threaded     *)
(* through the steps by errorGuard.  The platform (winsock, the C runtime's *)
(* standard streams, the peer) is the environment: every platform call     *)
(* returns one of the values its contract allows.                          *)
(***************************************************************************)
EXTENDS Integers, Sequences, FiniteSets, TLC

\* ------------------------------------------------------------------ bounds
\* Longest byte sequence a peer sends in the model.
MaxLen == 4
\* Most bytes the transport hands over in one recv in the model (the program
\* itself asks for up to buffSize).
MaxRead == 2

\* ------------------------------------------------------- program constants
buffSize == 4096
Port == 9999
EXIT_SUCCESS == 0
EXIT_FAILURE == 1
SOCKET_ERROR == -1
\* (SOCKET)(~0): the all-ones handle, written -1 here
INVALID_SOCKET == -1
LF == 10
CR == 13

\* The byte values a peer may send: a zero byte, a line feed, a carriage
\* return, a letter.
Bytes == {0, LF, CR, 65}

\* Values the platform calls may return.
WSAStartupReturns == {0, 10091, 10092}
SocketReturns == {INVALID_SOCKET, 260}
BindReturns == {0, SOCKET_ERROR}
ListenReturns == {0, SOCKET_ERROR}
AcceptReturns == {INVALID_SOCKET, 264}

Min(a, b) == IF a < b THEN a ELSE b

RECURSIVE SeqsUpTo(_)
SeqsUpTo(n) ==
    IF n = 0 THEN {<<>>}
    ELSE LET shorter == SeqsUpTo(n - 1)
         IN shorter \cup {Append(s, b) : s \in {t \in shorter : Len(t) = n - 1}, b \in Bytes}

\* ------------------------------------------------------------ diagnostics
MsgWSAStartup == <<87, 83, 65, 83, 116, 97, 114, 116, 117, 112, 32, 102, 97, 105, 108, 101, 100, 58, 32>>
MsgSocket == <<67, 111, 117, 108, 100, 110, 39, 116, 32, 99, 114, 101, 97, 116, 101, 32, 97, 32, 116, 99, 112, 32, 115, 111, 99, 107, 101, 116>>
MsgBind == <<115, 111, 99, 107, 101, 116, 32, 98, 105, 110, 100, 32, 101, 114, 114, 111, 114>>
MsgListen == <<115, 111, 99, 107, 101, 116, 32, 108, 105, 115, 116, 101, 110, 32, 101, 114, 114, 111, 114>>
MsgAccept == <<115, 111, 99, 107, 101, 116, 32, 97, 99, 99, 101, 112, 116, 32, 101, 114, 114, 111, 114>>
MsgRead == <<115, 111, 99, 107, 101, 116, 32, 101, 114, 114, 111, 114, 32, 100, 117, 114, 105, 110, 103, 32, 114, 101, 97, 100>>

\* std::to_string(int): decimal digits as characters, '-' first when negative
RECURSIVE Digits(_)
Digits(n) == IF n < 10 THEN <<48 + n>> ELSE Append(Digits(n \div 10), 48 + (n % 10))

to_string(n) == IF n < 0 THEN <<45>> \o Digits(0 - n) ELSE Digits(n)

\* ------------------------------------------------- Context = Env | Error
\* Env{}: every member value-initialised
freshEnv ==
    [wsaData |-> [wVersion |-> 0],
     socket |-> 0,
     addr |-> [sin_family |-> 0, sin_port |-> 0, sin_addr |-> 0],
     incomingDataSocket |-> 0,
     received |-> <<>>]

EnvCtx(env) == [tag |-> "Env", val |-> env]

Error(msg) == [tag |-> "Error", val |-> msg]

Nil == [tag |-> "Nil"]

freshContext == EnvCtx(freshEnv)

\* std::holds_alternative<Error>
holdsError(v) == v.tag = "Error"

\* What a step's callable leaves behind: the Env it worked on and its Result.
Outcome(env, result) == [env |-> env, result |-> result]

\* errorGuard with the assignment of the callable's Error to ctx left out
errorGuardKeepsEnv(c, out) == IF holdsError(c) THEN c ELSE EnvCtx(out.env)

\* errorGuard that starts over with a fresh Env when it meets an Error
errorGuardResets(c, out) ==
    IF holdsError(c) THEN EnvCtx(freshEnv)
    ELSE IF holdsError(out.result) THEN out.result
    ELSE EnvCtx(out.env)

\* errorGuard(ctx, callable): `out` is the outcome of callable(std::get<Env>(ctx)),
\* looked at only when ctx holds an Env.
errorGuard(c, out) ==
    IF holdsError(c) THEN c
    ELSE IF holdsError(out.result) THEN out.result
    ELSE EnvCtx(out.env)

\* errorGuard(ctx, onOk, onFailure) taking onOk's Result for an Error
errorGuardReportFails(c, out) == IF holdsError(c) THEN c ELSE Error(<<>>)

\* errorGuard(ctx, onOk, onFailure): the same for the context; onFailure gets
\* the Error and returns nothing.
errorGuardReport(c, out) ==
    IF holdsError(c) THEN c
    ELSE IF holdsError(out.result) THEN out.result
    ELSE EnvCtx(out.env)

\* The platform call of a step is made only when errorGuard runs the callable;
\* the log keeps each call with the value it returned.
Call(name, ret) == [name |-> name, ret |-> ret]

callsAfter(c, log, call) == IF holdsError(c) THEN log ELSE Append(log, call)

\* ------------------------------------------------------- the steps' bodies
MAKEWORD(lo, hi) == lo + 256 * hi

htons(port) == (port % 256) * 256 + (port \div 256)

\* ::sockAddrForPort: AF_INET (2), port in network order, address 0.0.0.0
sockAddrOf(port) == [sin_family |-> 2, sin_port |-> htons(port % 65536), sin_addr |-> 0]

initLambda(env, iResult) ==
    IF iResult # 0
    THEN Outcome(env, Error(MsgWSAStartup \o to_string(iResult)))
    ELSE Outcome([env EXCEPT !.wsaData = [wVersion |-> MAKEWORD(2, 2)]], Nil)

setupTcpSocketLambda(env, s) ==
    LET e == [env EXCEPT !.socket = s]
    IN IF e.socket = INVALID_SOCKET THEN Outcome(e, Error(MsgSocket)) ELSE Outcome(e, Nil)

\* sockAddrForPort's callable returning an Error where it meant Nil
sockAddrForPortLambdaError(env, port) ==
    Outcome([env EXCEPT !.addr = sockAddrOf(port)], Error(<<>>))

sockAddrForPortLambda(env, port) == Outcome([env EXCEPT !.addr = sockAddrOf(port)], Nil)

bindLambda(env, result) ==
    IF result = SOCKET_ERROR THEN Outcome(env, Error(MsgBind)) ELSE Outcome(env, Nil)

\* listenSocket's callable with the message copied from bindSocket's
listenLambdaBindMsg(env, result) ==
    IF result = SOCKET_ERROR THEN Outcome(env, Error(MsgBind)) ELSE Outcome(env, Nil)

listenLambda(env, result) ==
    IF result = SOCKET_ERROR THEN Outcome(env, Error(MsgListen)) ELSE Outcome(env, Nil)

acceptLambda(env, s) ==
    LET e == [env EXCEPT !.incomingDataSocket = s]
    IN IF e.incomingDataSocket = INVALID_SOCKET THEN Outcome(e, Error(MsgAccept)) ELSE Outcome(e, Nil)

\* char buf[buffSize] = { 0 }, and buf again after memset(buf, 0, buffSize)
zeroBuf == [i \in 1..buffSize |-> 0]

\* recv stores the bytes it returns at the front of buf and leaves the rest
recvInto(buf, data) == [i \in 1..buffSize |-> IF i <= Len(data) THEN data[i] ELSE buf[i]]

\* insert written as an assignment: the chunk replaces what was received
insertEndOverwrite(received, buf, readSize) == [i \in 1..readSize |-> buf[i]]

\* insert of the whole chunk, not of the bytes recv returned
insertEndWholeBuf(received, buf, readSize) == received \o buf

\* env.received.insert(env.received.end(), buf, buf + readSize)
insertEnd(received, buf, readSize) == received \o [i \in 1..readSize |-> buf[i]]

\* The recv loop ended at the first read shorter than the chunk
drainLambdaShortRead(env, result, data) ==
    IF result = 0 THEN [finished |-> TRUE, out |-> Outcome(env, Nil)]
    ELSE IF result = SOCKET_ERROR THEN [finished |-> TRUE, out |-> Outcome(env, Error(MsgRead))]
    ELSE [finished |-> result < buffSize,
          out |-> Outcome([env EXCEPT !.received = insertEnd(@, recvInto(zeroBuf, data), result)], Nil)]

\* The recv loop taking a failed read for the end of the stream
drainLambdaErrorIsEof(env, result, data) ==
    IF result = 0 \/ result = SOCKET_ERROR THEN [finished |-> TRUE, out |-> Outcome(env, Nil)]
    ELSE [finished |-> FALSE,
          out |-> Outcome([env EXCEPT !.received = insertEnd(@, recvInto(zeroBuf, data), result)], Nil)]

\* One turn of the recv loop: `result` is what recv returned, `data` the bytes
\* it stored.  finished is TRUE when the callable returns.
drainLambda(env, result, data) ==
    IF result = 0 THEN [finished |-> TRUE, out |-> Outcome(env, Nil)]
    ELSE IF result = SOCKET_ERROR THEN [finished |-> TRUE, out |-> Outcome(env, Error(MsgRead))]
    ELSE [finished |-> FALSE,
          out |-> Outcome([env EXCEPT !.received = insertEnd(@, recvInto(zeroBuf, data), result)], Nil)]

\* What recv may return for a peer that still has `rest` to deliver: an error,
\* zero once the peer has sent everything and closed, else a count of bytes.
RecvReturns(rest) ==
    {SOCKET_ERROR} \cup (IF rest = <<>> THEN {0} ELSE 1..Min(Min(Len(rest), MaxRead), buffSize))

\* ------------------------------------------------------ standard streams
\* The C runtime translates each line feed written to a text-mode stream
\* into carriage return, line feed; a binary-mode stream passes bytes through.
RECURSIVE textModeBytes(_)
textModeBytes(data) ==
    IF data = <<>> THEN <<>>
    ELSE (IF Head(data) = LF THEN <<CR, LF>> ELSE <<Head(data)>>) \o textModeBytes(Tail(data))

streamBytes(mode, data) == IF mode = "binary" THEN data ELSE textModeBytes(data)

\* dump's ok with a count one short of the buffer's size
dumpOkShort(env) ==
    [stream |-> "stdout", what |-> "buffer",
     data |-> SubSeq(env.received, 1, Len(env.received) - 1)]

\* dump's ok: std::fwrite(env.received.data(), 1, env.received.size(), stdout)
dumpOk(env) == [stream |-> "stdout", what |-> "buffer", data |-> env.received]

\* dump's fail printing the message a second time
dumpFailTwice(msg) ==
    [stream |-> "stdout", what |-> "diagnostic", data |-> Append(msg, LF) \o Append(msg, LF)]

\* dump's fail: std::cout << err.msg << std::endl
dumpFail(msg) == [stream |-> "stdout", what |-> "diagnostic", data |-> Append(msg, LF)]

\* The write dump makes for a context: onFailure on Error, onOk on Env.
dumpWrite(c) == IF holdsError(c) THEN dumpFail(c.val) ELSE dumpOk(c.val)

\* getExitCode that does not look at the context
getExitCodeAlwaysSuccess(c) == EXIT_SUCCESS

getExitCode(c) == IF holdsError(c) THEN EXIT_FAILURE ELSE EXIT_SUCCESS

\* main without its call of dump
nextStepSkipsDump(p) ==
    CASE p = "init" -> "setupTcpSocket"
      [] p = "setupTcpSocket" -> "sockAddrForPort"
      [] p = "sockAddrForPort" -> "bindSocket"
      [] p = "bindSocket" -> "listenSocket"
      [] p = "listenSocket" -> "acceptSocket"
      [] p = "acceptSocket" -> "drainSocket"
      [] p = "drainSocket" -> "getExitCode"
      [] p = "getExitCode" -> "done"

\* main that never gets to its return statement
nextStepSpins(p) ==
    CASE p = "init" -> "setupTcpSocket"
      [] p = "setupTcpSocket" -> "sockAddrForPort"
      [] p = "sockAddrForPort" -> "bindSocket"
      [] p = "bindSocket" -> "listenSocket"
      [] p = "listenSocket" -> "acceptSocket"
      [] p = "acceptSocket" -> "drainSocket"
      [] p = "drainSocket" -> "dump"
      [] p = "dump" -> "getExitCode"
      [] p = "getExitCode" -> "getExitCode"

\* main with listenSocket called before bindSocket
nextStepListenFirst(p) ==
    CASE p = "init" -> "setupTcpSocket"
      [] p = "setupTcpSocket" -> "sockAddrForPort"
      [] p = "sockAddrForPort" -> "listenSocket"
      [] p = "listenSocket" -> "bindSocket"
      [] p = "bindSocket" -> "acceptSocket"
      [] p = "acceptSocket" -> "drainSocket"
      [] p = "drainSocket" -> "dump"
      [] p = "dump" -> "getExitCode"
      [] p = "getExitCode" -> "done"

\* main: the order of the steps
nextStep(p) ==
    CASE p = "init" -> "setupTcpSocket"
      [] p = "setupTcpSocket" -> "sockAddrForPort"
      [] p = "sockAddrForPort" -> "bindSocket"
      [] p = "bindSocket" -> "listenSocket"
      [] p = "listenSocket" -> "acceptSocket"
      [] p = "acceptSocket" -> "drainSocket"
      [] p = "drainSocket" -> "dump"
      [] p = "dump" -> "getExitCode"
      [] p = "getExitCode" -> "done"

\* ------------------------------------------------------------------ state
VARIABLES
    pc,          \* the step main is about to run
    ctx,         \* the Context
    calls,       \* platform calls made so far, in order
    held,        \* platform resources acquired and not released
    sent,        \* the bytes the peer sends before closing
    unread,      \* the part of sent no recv has returned yet
    stdoutMode,  \* translation mode of the standard output stream
    stdoutBytes, \* bytes that reached standard output
    stderrBytes, \* bytes that reached standard error
    emitted,     \* the writes made to the standard streams, in order
    dumpCount,   \* times dump has run
    exitStatus   \* <<>> while running, <<code>> once main has returned

vars == <<pc, ctx, calls, held, sent, unread, stdoutMode, stdoutBytes, stderrBytes,
          emitted, dumpCount, exitStatus>>

peer == <<sent, unread>>
output == <<stdoutMode, stdoutBytes, stderrBytes, emitted, dumpCount>>

\* Process start: a fresh Context, the standard streams as the C runtime
\* opens them (text mode), a peer with some byte sequence to send.
Init ==
    /\ pc = "init"
    /\ ctx = freshContext
    /\ calls = <<>>
    /\ held = {}
    /\ sent \in SeqsUpTo(MaxLen)
    /\ unread = sent
    /\ stdoutMode = "text"
    /\ stdoutBytes = <<>>
    /\ stderrBytes = <<>>
    /\ emitted = <<>>
    /\ dumpCount = 0
    /\ exitStatus = <<>>

\* A resource is held from the successful call that acquired it.
acquire(c, ok, res) == IF ~holdsError(c) /\ ok THEN held \cup {res} ELSE held

init ==
    /\ pc = "init"
    /\ \E iResult \in WSAStartupReturns :
        /\ ctx' = errorGuard(ctx, initLambda(ctx.val, iResult))
        /\ held' = acquire(ctx, iResult = 0, "wsa")
        /\ calls' = callsAfter(ctx, calls, Call("WSAStartup", iResult))
    /\ pc' = nextStep(pc)
    /\ UNCHANGED <<peer, output, exitStatus>>

setupTcpSocket ==
    /\ pc = "setupTcpSocket"
    /\ \E s \in SocketReturns :
        /\ ctx' = errorGuard(ctx, setupTcpSocketLambda(ctx.val, s))
        /\ held' = acquire(ctx, s # INVALID_SOCKET, "socket")
        /\ calls' = callsAfter(ctx, calls, Call("socket", s))
    /\ pc' = nextStep(pc)
    /\ UNCHANGED <<peer, output, exitStatus>>

sockAddrForPort ==
    /\ pc = "sockAddrForPort"
    /\ ctx' = errorGuard(ctx, sockAddrForPortLambda(ctx.val, Port))
    /\ pc' = nextStep(pc)
    /\ UNCHANGED <<calls, held, peer, output, exitStatus>>

bindSocket ==
    /\ pc = "bindSocket"
    /\ \E result \in BindReturns :
        /\ ctx' = errorGuard(ctx, bindLambda(ctx.val, result))
        /\ calls' = callsAfter(ctx, calls, Call("bind", result))
    /\ pc' = nextStep(pc)
    /\ UNCHANGED <<held, peer, output, exitStatus>>

listenSocket ==
    /\ pc = "listenSocket"
    /\ \E result \in ListenReturns :
        /\ ctx' = errorGuard(ctx, listenLambda(ctx.val, result))
        /\ calls' = callsAfter(ctx, calls, Call("listen", result))
    /\ pc' = nextStep(pc)
    /\ UNCHANGED <<held, peer, output, exitStatus>>

acceptSocket ==
    /\ pc = "acceptSocket"
    /\ \E s \in AcceptReturns :
        /\ ctx' = errorGuard(ctx, acceptLambda(ctx.val, s))
        /\ held' = acquire(ctx, s # INVALID_SOCKET, "incomingDataSocket")
        /\ calls' = callsAfter(ctx, calls, Call("accept", s))
    /\ pc' = nextStep(pc)
    /\ UNCHANGED <<peer, output, exitStatus>>

\* drainSocket: skipped on an Error context; otherwise one recv of the loop per
\* step, the step staying at drainSocket until the callable returns.
drainSocket ==
    /\ pc = "drainSocket"
    /\ IF holdsError(ctx)
       THEN /\ pc' = nextStep(pc)
            /\ UNCHANGED <<ctx, calls, unread>>
       ELSE \E result \in RecvReturns(unread) :
            LET n == IF result > 0 THEN result ELSE 0
                data == SubSeq(unread, 1, n)
                turn == drainLambda(ctx.val, result, data)
            IN /\ calls' = callsAfter(ctx, calls, Call("recv", result))
               /\ unread' = SubSeq(unread, n + 1, Len(unread))
               /\ ctx' = IF turn.finished THEN errorGuard(ctx, turn.out) ELSE EnvCtx(turn.out.env)
               /\ pc' = IF turn.finished THEN nextStep(pc) ELSE pc
    /\ UNCHANGED <<held, sent, output, exitStatus>>

\* dump: one write to a standard stream; both callables leave the context alone.
dump ==
    /\ pc = "dump"
    /\ LET w == dumpWrite(ctx)
       IN /\ emitted' = Append(emitted, w)
          /\ stdoutBytes' = IF w.stream = "stdout"
                            THEN stdoutBytes \o streamBytes(stdoutMode, w.data) ELSE stdoutBytes
          /\ stderrBytes' = IF w.stream = "stderr"
                            THEN stderrBytes \o streamBytes("text", w.data) ELSE stderrBytes
    /\ ctx' = errorGuardReport(ctx, Outcome(ctx.val, Nil))
    /\ dumpCount' = dumpCount + 1
    /\ pc' = nextStep(pc)
    /\ UNCHANGED <<calls, held, peer, stdoutMode, exitStatus>>

\* return M::withContext(ctx, M::getExitCode)
mainReturn ==
    /\ pc = "getExitCode"
    /\ exitStatus' = <<getExitCode(ctx)>>
    /\ pc' = nextStep(pc)
    /\ UNCHANGED <<ctx, calls, held, peer, output>>

Next ==
    \/ init
    \/ setupTcpSocket
    \/ sockAddrForPort
    \/ bindSocket
    \/ listenSocket
    \/ acceptSocket
    \/ drainSocket
    \/ dump
    \/ mainReturn

Spec == Init /\ [][Next]_vars

\* Every blocking call eventually returns: the step main is at is eventually
\* taken (a peer connects or accept fails; the peer, whose stream is finite,
\* sends, closes, or the read fails).
FairSpec == Spec /\ WF_vars(Next)

TypeOK ==
    /\ pc \in {"init", "setupTcpSocket", "sockAddrForPort", "bindSocket", "listenSocket",
               "acceptSocket", "drainSocket", "dump", "getExitCode", "done"}
    /\ ctx.tag \in {"Env", "Error"}
    /\ held \subseteq {"wsa", "socket", "incomingDataSocket"}
    /\ Len(unread) <= Len(sent)
    /\ stdoutMode \in {"text", "binary"}
    /\ dumpCount \in 0..1
    /\ Len(exitStatus) <= 1

\* ------------------------------------------------- vocabulary of the claims
\* The bytes the reads have returned so far, in order.
delivered == SubSeq(sent, 1, Len(sent) - Len(unread))

\* A platform call reported failure: its own failure sentinel came back.
failed(call) ==
    CASE call.name = "WSAStartup" -> call.ret # 0
      [] call.name \in {"socket", "accept"} -> call.ret = INVALID_SOCKET
      [] call.name \in {"bind", "listen", "recv"} -> call.ret = SOCKET_ERROR

SomeCallFailed == \E i \in DOMAIN calls : failed(calls[i])

called(name) == \E i \in DOMAIN calls : calls[i].name = name

returned(name, ret) == \E i \in DOMAIN calls : calls[i] = Call(name, ret)

AcceptedOk == \E i \in DOMAIN calls : calls[i].name = "accept" /\ ~failed(calls[i])

\* The recv loop ended because a read returned zero bytes.
DrainedToClose == calls # <<>> /\ calls[Len(calls)] = Call("recv", 0)

recvCalls == SelectSeq(calls, LAMBDA call : call.name = "recv")

\* dump has run.
reported == pc \in {"getExitCode", "done"}

beforeReport == pc \in {"init", "setupTcpSocket", "sockAddrForPort", "bindSocket",
                        "listenSocket", "acceptSocket", "drainSocket", "dump"}

Diagnostics ==
    {MsgSocket, MsgBind, MsgListen, MsgAccept, MsgRead}
        \cup {MsgWSAStartup \o to_string(r) : r \in WSAStartupReturns \ {0}}

\* ------------------------------------------------------------------ claims
\* C1: when every step succeeds and the reads deliver B and then zero bytes,
\* the bytes dump puts on standard output are exactly B.
C1_RoundTrip ==
    (reported /\ ~SomeCallFailed /\ DrainedToClose) => stdoutBytes = sent

\* C2: main returns the success code exactly when accept gave a connection and
\* the recv loop ended on a zero-byte read, and the failure code exactly when
\* some platform call reported an error.
C2_ExitStatus ==
    pc = "done" =>
        /\ exitStatus \in {<<EXIT_SUCCESS>>, <<EXIT_FAILURE>>}
        /\ exitStatus = <<EXIT_SUCCESS>> <=> (AcceptedOk /\ DrainedToClose)
        /\ exitStatus = <<EXIT_FAILURE>> <=> SomeCallFailed

C2_Witness ==
    /\ pc = "done"
    /\ exitStatus = <<EXIT_SUCCESS>>
    /\ Len(sent) = 3
    /\ Len(recvCalls) = 3

\* C3: when dump runs on an Error context nothing reaches standard output and
\* the newline-terminated diagnostic goes to standard error.
C3_FailureChannel ==
    (reported /\ holdsError(ctx)) =>
        /\ stdoutBytes = <<>>
        /\ stderrBytes # <<>>
        /\ stderrBytes[Len(stderrBytes)] = LF

\* C4: no platform call follows a platform call that failed; after a failed
\* bind there is no listen, accept or recv, the context carries the bind
\* diagnostic and the exit status is failure.
C4_ShortCircuit ==
    /\ \A i \in DOMAIN calls : failed(calls[i]) => i = Len(calls)
    /\ returned("bind", SOCKET_ERROR) =>
        /\ ~called("listen") /\ ~called("accept") /\ ~called("recv")
        /\ ctx = Error(MsgBind)
        /\ pc = "done" => exitStatus = <<EXIT_FAILURE>>

C4_Witness ==
    /\ pc = "done"
    /\ returned("bind", SOCKET_ERROR)
    /\ Len(calls) = 3

\* C5: once dump has run exactly one thing has been emitted: the whole captured
\* buffer of a run without failure, or the diagnostic of a run with one; never
\* both, never a part of the buffer.
C5_NoPartialSuccess ==
    reported =>
        /\ Len(emitted) = 1
        /\ LET w == emitted[1]
           IN /\ IF w.stream = "stdout"
                 THEN stdoutBytes = streamBytes(stdoutMode, w.data) /\ stderrBytes = <<>>
                 ELSE stderrBytes = streamBytes("text", w.data) /\ stdoutBytes = <<>>
              /\ \/ /\ w.what = "buffer"
                    /\ ~SomeCallFailed
                    /\ w.data = delivered
                 \/ /\ w.what = "diagnostic"
                    /\ SomeCallFailed
                    /\ w.data \in {Append(d, LF) : d \in Diagnostics}

\* A read failed after bytes had been captured: only the diagnostic is out.
C5_Witness ==
    /\ pc = "done"
    /\ returned("recv", SOCKET_ERROR)
    /\ Len(delivered) >= 2
    /\ emitted[1].what = "diagnostic"

\* C6: however the transport splits B into reads, the captured buffer, the
\* bytes on standard output and the exit status are those B alone determines.
C6_ChunkInsensitive ==
    /\ (pc = "drainSocket" /\ ~holdsError(ctx)) => ctx.val.received \o unread = sent
    /\ (reported /\ ~holdsError(ctx)) =>
        /\ ctx.val.received = sent
        /\ stdoutBytes = streamBytes(stdoutMode, sent)
    /\ (pc = "done" /\ ~holdsError(ctx)) => exitStatus = <<EXIT_SUCCESS>>

\* B of four bytes delivered by reads of unequal sizes.
C6_Witness ==
    /\ pc = "done"
    /\ ~holdsError(ctx)
    /\ Len(sent) = 4
    /\ Len(recvCalls) = 4
    /\ recvCalls[1].ret # recvCalls[2].ret

\* C7: a context that holds an Error keeps that Error in every step, and the
\* steps before dump change nothing but main's position.
C7_FailedAbsorbing ==
    [][holdsError(ctx) =>
        /\ ctx' = ctx
        /\ beforeReport /\ pc # "dump" => UNCHANGED <<calls, held, peer, output, exitStatus>>]_vars

\* init failed and every later step up to dump was skipped.
C7_Witness ==
    /\ pc = "dump"
    /\ holdsError(ctx)
    /\ calls = <<Call("WSAStartup", 10091)>>

\* C8: dump runs exactly once, after drainSocket and before the exit status is
\* produced, on Env and on Error contexts alike; nothing is emitted before it
\* and nothing after it.
C8_ReportFinalizer ==
    /\ beforeReport =>
        dumpCount = 0 /\ emitted = <<>> /\ stdoutBytes = <<>> /\ stderrBytes = <<>>
                      /\ exitStatus = <<>>
    /\ pc = "getExitCode" => dumpCount = 1 /\ Len(emitted) = 1 /\ exitStatus = <<>>
    /\ pc = "done" => dumpCount = 1 /\ Len(emitted) = 1 /\ Len(exitStatus) = 1

C8_Witness ==
    /\ pc = "done"
    /\ dumpCount = 1
    /\ holdsError(ctx)
    /\ returned("socket", INVALID_SOCKET)

\* C9: when the process exits, every resource it acquired has been released.
C9_Released == pc = "done" => held = {}

\* C10: when dump has written the captured buffer, standard output is in
\* binary mode and holds exactly the buffer's bytes.
C10_BinaryStdout ==
    (reported /\ ~holdsError(ctx)) =>
        /\ stdoutMode = "binary"
        /\ stdoutBytes = ctx.val.received

\* The value the platform call of the step just taken returned.
lastRet == calls'[Len(calls')].ret

\* C11: a turn of the recv loop leaves drainSocket with the context still an
\* Env exactly when recv returned zero; a read of n > 0 bytes stays in the
\* loop; the error sentinel leaves it only with the context an Error.
C11_SoleTerminator ==
    [][(pc = "drainSocket" /\ ~holdsError(ctx)) =>
        /\ calls' = Append(calls, Call("recv", lastRet))
        /\ (pc' = "dump" /\ ~holdsError(ctx')) <=> lastRet = 0
        /\ lastRet > 0 => (pc' = "drainSocket" /\ ~holdsError(ctx'))
        /\ lastRet = SOCKET_ERROR => (pc' = "dump" /\ ctx' = Error(MsgRead))
        /\ pc' \in {"drainSocket", "dump"}]_vars

\* The loop went on past a zero byte in the data and past three reads, and
\* ended on the zero-byte read.
C11_Witness ==
    /\ pc = "dump"
    /\ ~holdsError(ctx)
    /\ ctx.val.received = <<65, 0, 65, 0>>
    /\ Len(recvCalls) = 4
    /\ DrainedToClose

\* accept or recv has been called and the step waits for it to return.
blocked == pc \in {"acceptSocket", "drainSocket"} /\ ~holdsError(ctx)

\* C12: when every blocking call eventually returns the process reaches its
\* exit; nothing but the return of accept or recv moves the pipeline off
\* Accept or Drain, and nothing has been emitted while it is there.
C12_Termination ==
    /\ <>(pc = "done")
    /\ [](blocked => (emitted = <<>> /\ stdoutBytes = <<>> /\ stderrBytes = <<>>))
    /\ [][blocked =>
            /\ Len(calls') = Len(calls) + 1
            /\ calls'[Len(calls')].name = (IF pc = "acceptSocket" THEN "accept" ELSE "recv")]_vars

C12_Witness ==
    /\ pc = "done"
    /\ AcceptedOk
    /\ Len(recvCalls) = 5
\* The platform calls in the order main makes them; recv may repeat.
callOrder == <<"WSAStartup", "socket", "bind", "listen", "accept", "recv">>

\* C13: the platform calls made so far are WSAStartup, socket, bind, listen,
\* accept, recv, recv, ... in this order, the first five once each, and a call
\* is made only after every earlier call succeeded.
C13_StepOrder ==
    /\ \A i \in DOMAIN calls :
        /\ calls[i].name = callOrder[Min(i, 6)]
        /\ \A j \in 1..(i - 1) : ~failed(calls[j])
    /\ \A name \in {"WSAStartup", "socket", "bind", "listen", "accept"} :
        Cardinality({i \in DOMAIN calls : calls[i].name = name}) <= 1
    /\ pc \in {"drainSocket", "dump", "getExitCode", "done"} /\ Len(calls) >= 5 =>
        Cardinality({i \in DOMAIN calls : calls[i].name = "accept"}) = 1

C13_Witness ==
    /\ pc = "done"
    /\ Len(calls) = 8
    /\ calls[5] = Call("accept", 264)
    /\ calls[8] = Call("recv", 0)

\* The bytes the writes made so far put on a stream of the given mode.
RECURSIVE written(_, _, _)
written(log, stream, mode) ==
    IF log = <<>> THEN <<>>
    ELSE (IF Head(log).stream = stream THEN streamBytes(mode, Head(log).data) ELSE <<>>)
            \o written(Tail(log), stream, mode)

\* C14: after a read error the context is the Error of the read, whatever had
\* been captured is gone with the Env, no write of the buffer is ever made
\* (the streams hold the diagnostic's bytes only) and the exit status is
\* failure.
C14_PartialAbandoned ==
    returned("recv", SOCKET_ERROR) =>
        /\ ctx = Error(MsgRead)
        /\ \A i \in DOMAIN emitted :
            emitted[i].what = "diagnostic" /\ emitted[i].data = Append(MsgRead, LF)
        /\ stdoutBytes = written(emitted, "stdout", stdoutMode)
        /\ stderrBytes = written(emitted, "stderr", "text")
        /\ pc = "done" => exitStatus = <<EXIT_FAILURE>>

\* Three bytes captured by two reads, then the read error.
C14_Witness ==
    /\ pc = "done"
    /\ returned("recv", SOCKET_ERROR)
    /\ Len(delivered) = 3
    /\ Len(recvCalls) = 3

\* The diagnostic of a failed platform call.
diagnosticOf(call) ==
    CASE call.name = "WSAStartup" -> MsgWSAStartup \o to_string(call.ret)
      [] call.name = "socket" -> MsgSocket
      [] call.name = "bind" -> MsgBind
      [] call.name = "listen" -> MsgListen
      [] call.name = "accept" -> MsgAccept
      [] call.name = "recv" -> MsgRead

\* C15: the six failure conditions have six different messages; an Error
\* context holds the message of the first (and only) call that failed, dump
\* reports that message, and the message of a failed WSAStartup ends with the
\* decimal digits of the code it returned.
C15_FirstFailureDiagnostic ==
    /\ Cardinality({MsgWSAStartup, MsgSocket, MsgBind, MsgListen, MsgAccept, MsgRead}) = 6
    /\ holdsError(ctx) =>
        /\ calls # <<>>
        /\ failed(calls[Len(calls)])
        /\ \A i \in DOMAIN calls : failed(calls[i]) => ctx.val = diagnosticOf(calls[i])
        /\ reported => (Len(emitted) = 1 /\ emitted[1].data = Append(ctx.val, LF))
    /\ returned("WSAStartup", 10091) =>
        ctx.val = MsgWSAStartup \o <<49, 48, 48, 57, 49>>
    /\ returned("WSAStartup", 10092) =>
        ctx.val = MsgWSAStartup \o <<49, 48, 48, 57, 50>>

\* listen failed and the later steps were skipped.
C15_Witness ==
    /\ pc = "done"
    /\ returned("listen", SOCKET_ERROR)
    /\ ctx.val = MsgListen

\* C16: the buffer is empty until the first read; a read of n bytes, 1 <= n <=
\* buffSize, appends exactly the n bytes the transport delivered; every other
\* step that keeps the Env keeps the buffer.
C16_AppendOnly ==
    /\ []((~holdsError(ctx) /\ recvCalls = <<>>) => ctx.val.received = <<>>)
    /\ [][(~holdsError(ctx) /\ ~holdsError(ctx')) =>
            IF pc = "drainSocket" /\ lastRet > 0
            THEN /\ lastRet <= buffSize
                 /\ ctx'.val.received = ctx.val.received \o SubSeq(unread, 1, lastRet)
                 /\ Len(ctx'.val.received) = Len(ctx.val.received) + lastRet
            ELSE ctx'.val.received = ctx.val.received]_vars

C16_Witness ==
    /\ pc = "dump"
    /\ ~holdsError(ctx)
    /\ ctx.val.received = <<LF, 65, 0, CR>>
    /\ Len(recvCalls) = 4
\* C17: dump leaves the context as it found it (the same Env with the same
\* buffer, the same Error with the same message); getExitCode changes nothing
\* and returns what the context at the end of drainSocket decides.
C17_ReportKeepsOutcome ==
    [][/\ pc = "dump" => (ctx' = ctx /\ UNCHANGED <<calls, held, peer, exitStatus>>)
       /\ pc = "getExitCode" =>
            /\ UNCHANGED <<ctx, calls, held, peer, output>>
            /\ exitStatus' = <<IF ctx.tag = "Error" THEN EXIT_FAILURE ELSE EXIT_SUCCESS>>]_vars

C17_Witness ==
    /\ pc = "done"
    /\ ~holdsError(ctx)
    /\ ctx.val.received = <<65, LF>>
    /\ exitStatus = <<EXIT_SUCCESS>>

\* C18: only dump writes to the standard streams; a failed run has emitted,
\* once dump has run, its diagnostic exactly once, however many steps the
\* failure skipped.
C18_OutputOnlyAtReport ==
    /\ [][pc # "dump" => UNCHANGED <<stdoutBytes, stderrBytes, emitted>>]_vars
    /\ []((reported /\ holdsError(ctx)) =>
            /\ Len(emitted) = 1
            /\ emitted[1].data = Append(ctx.val, LF)
            /\ stdoutBytes \o stderrBytes = textModeBytes(Append(ctx.val, LF)))

\* init failed, seven steps were skipped or passed, one diagnostic is out.
C18_Witness ==
    /\ pc = "done"
    /\ calls = <<Call("WSAStartup", 10092)>>
    /\ Len(emitted) = 1

\* The step a platform call belongs to.
stepOf(name) ==
    CASE name = "WSAStartup" -> "init"
      [] name = "socket" -> "setupTcpSocket"
      [] name = "bind" -> "bindSocket"
      [] name = "listen" -> "listenSocket"
      [] name = "accept" -> "acceptSocket"
      [] name = "recv" -> "drainSocket"

\* C19: the context goes from Env to Error only in a step whose platform call
\* has just returned its failure sentinel; a step whose call succeeded,
\* sockAddrForPort, dump and getExitCode never make it an Error.
C19_SingleCause ==
    [][(~holdsError(ctx) /\ holdsError(ctx')) =>
        /\ pc \notin {"sockAddrForPort", "dump", "getExitCode"}
        /\ Len(calls') = Len(calls) + 1
        /\ failed(calls'[Len(calls')])
        /\ stepOf(calls'[Len(calls')].name) = pc]_vars

C19_Witness ==
    /\ holdsError(ctx)
    /\ pc = "drainSocket"
    /\ calls[Len(calls)] = Call("accept", INVALID_SOCKET)
====
